---- MODULE Spec2Model ----
(***************************************************************************)
(* Move-to-front table of mtftable.c on top of the singly linked dlist.    *)
(* The dlist is a chain of cells starting at a head cell that carries no   *)
(* payload; a dlist_position p designates the payload of the cell p->next. *)
(* Every table operation is one atomic action (the code is single          *)
(* threaded and each function runs to completion).                         *)
(***************************************************************************)
EXTENDS Integers, Sequences, FiniteSets, TLC

\* ------------------------------------------------------------------ bounds
MaxCells == 2      \* number of table_insert calls in one table's lifetime
MaxKey == 2        \* keys are 1..MaxKey

NULL == 0
head == MaxCells + 1            \* the cell t->values->head
Cells == 1..MaxCells            \* cells that table_insert can allocate
Keys == 1..MaxKey
\* The value handed to the insert that allocates cell c: the NULL pointer or
\* a pointer of its own (the table never reads through a value pointer).
Values(c) == {NULL, c}
FreeFuncs == {NULL, 1}          \* NULL: no handler registered

VARIABLES
  next,            \* cell -> cell: the next field of every dlist cell
  elem,            \* cell -> [key, value]: the TableElement a live cell carries
  live,            \* cells allocated and not yet freed
  used,            \* number of cells allocated so far
  keyFree,         \* t->keyFree
  valueFree,       \* t->valueFree
  keyFreeCalls,    \* cell -> number of keyFree calls on that entry's key
  valueFreeCalls,  \* cell -> number of valueFree calls on that entry's value
  status,          \* "live", "freed" (after table_free), "crashed"
  last             \* the last call: its arguments, result and pre-state

vars == <<next, elem, live, used, keyFree, valueFree, keyFreeCalls,
          valueFreeCalls, status, last>>

\* The numeric comparator of the callers (<0, 0, >0).
cf(a, b) == a - b

\* ------------------------------------------------------------ dlist (dlist.h)
dlist_first == head

dlist_isEnd(nx, p) == nx[p] = NULL

dlist_inspect(nx, p) == nx[p]

dlist_next(nx, p) == nx[p]

dlist_isEmpty(nx) == nx[head] = NULL

\* A new cell c is linked in after position p.
dlist_insert(nx, p, c) == [nx EXCEPT ![c] = nx[p], ![p] = c]

\* The cell after p is unlinked and freed together with its payload (the
\* list's memory handler is free); the position p is returned and now
\* designates the following payload.
NoElem == [key |-> NULL, value |-> NULL]

dlist_remove(s, p) ==
  LET c == s.next[p] IN
  [s EXCEPT !.next = [s.next EXCEPT ![p] = s.next[c], ![c] = NULL],
            !.elem = [s.elem EXCEPT ![c] = NoElem],
            !.live = s.live \ {c}]

\* The cells reachable from position p, front to back.
RECURSIVE Chain(_, _, _)
Chain(nx, p, fuel) ==
  IF fuel = 0 \/ nx[p] = NULL THEN <<>>
  ELSE <<nx[p]>> \o Chain(nx, nx[p], fuel - 1)

\* The table's sequence of entries (cells), front to back.
List(nx) == Chain(nx, dlist_first, MaxCells + 1)

\* --------------------------------------------------------------- mtftable.c
table_isEmpty(nx) == dlist_isEmpty(nx)

\* Mutant: the new element is put after the first entry instead of before it.
table_insert_second(nx, c) ==
  dlist_insert(nx, IF dlist_isEmpty(nx) THEN dlist_first
                   ELSE dlist_next(nx, dlist_first), c)

\* Mutant: the new element is put behind the last entry.
table_insert_end(nx, c) ==
  dlist_insert(nx, IF dlist_isEmpty(nx) THEN dlist_first
                   ELSE List(nx)[Len(List(nx))], c)

table_insert(nx, c) == dlist_insert(nx, dlist_first, c)

\* Mutant: the last assignment of the relink (p->next = temp1) is missing,
\* so the cell before the match still points to the match.
Relink_noBridge(nx, p) ==
  LET temp2 == nx[head]
      n1 == [nx EXCEPT ![head] = nx[p]]
      n2 == [n1 EXCEPT ![n1[p]] = temp2]
  IN n2

\* The relink of table_lookup: p is the position of the match.
Relink(nx, p) ==
  LET temp1 == nx[nx[p]]
      temp2 == nx[head]
      n1 == [nx EXCEPT ![head] = nx[p]]
      n2 == [n1 EXCEPT ![n1[p]] = temp2]
      n3 == [n2 EXCEPT ![p] = temp1]
  IN n3

\* Mutant: the comparator result is tested with <= 0.
Match_le(el, i, key) == cf(el[i].key, key) <= 0

\* The test t->cf(i->key,key)==0 of the scans.
Match(el, i, key) == cf(el[i].key, key) = 0

\* Mutant: the matched element's key is returned instead of its value.
RECURSIVE lookup_scan_key(_, _, _, _)
lookup_scan_key(nx, el, key, p) ==
  IF dlist_isEnd(nx, p) THEN [next |-> nx, ret |-> NULL]
  ELSE LET i == dlist_inspect(nx, p) IN
       IF Match(el, i, key)
       THEN [next |-> Relink(nx, p), ret |-> el[i].key]
       ELSE lookup_scan_key(nx, el, key, dlist_next(nx, p))

RECURSIVE lookup_scan(_, _, _, _)
lookup_scan(nx, el, key, p) ==
  IF dlist_isEnd(nx, p) THEN [next |-> nx, ret |-> NULL]
  ELSE LET i == dlist_inspect(nx, p) IN
       IF Match(el, i, key)
       THEN [next |-> Relink(nx, p), ret |-> el[i].value]
       ELSE lookup_scan(nx, el, key, dlist_next(nx, p))

\* Result of table_lookup: the new links and the returned value.
table_lookup(nx, el, key) == lookup_scan(nx, el, key, dlist_first)

\* Mutant: the value destructor is guarded by the key handler's null test.
FreeEntry_keyTest(s, i, kf, vf) ==
  [s EXCEPT !.kc = IF kf # NULL THEN [s.kc EXCEPT ![i] = @ + 1] ELSE s.kc,
            !.vc = IF kf # NULL THEN [s.vc EXCEPT ![i] = @ + 1] ELSE s.vc]

\* The destructor calls of table_remove and table_free on entry i.
FreeEntry(s, i, kf, vf) ==
  [s EXCEPT !.kc = IF kf # NULL THEN [s.kc EXCEPT ![i] = @ + 1] ELSE s.kc,
            !.vc = IF vf # NULL THEN [s.vc EXCEPT ![i] = @ + 1] ELSE s.vc]

\* Mutant: the position is advanced also after a removal, so the entry that
\* follows a removed one is never compared.
RECURSIVE remove_scan_skip(_, _, _, _, _)
remove_scan_skip(s, key, kf, vf, p) ==
  IF dlist_isEnd(s.next, p) THEN s
  ELSE LET i == dlist_inspect(s.next, p) IN
       IF Match(s.elem, i, key)
       THEN LET s2 == dlist_remove(FreeEntry(s, i, kf, vf), p) IN
            IF dlist_isEnd(s2.next, p) THEN s2
            ELSE remove_scan_skip(s2, key, kf, vf, dlist_next(s2.next, p))
       ELSE remove_scan_skip(s, key, kf, vf, dlist_next(s.next, p))

\* Mutant: the destructors are called on every visited entry, before the
\* comparison.
RECURSIVE remove_scan_freeAll(_, _, _, _, _)
remove_scan_freeAll(s, key, kf, vf, p) ==
  IF dlist_isEnd(s.next, p) THEN s
  ELSE LET i == dlist_inspect(s.next, p)
           s1 == FreeEntry(s, i, kf, vf)
       IN IF Match(s.elem, i, key)
          THEN remove_scan_freeAll(dlist_remove(s1, p), key, kf, vf, p)
          ELSE remove_scan_freeAll(s1, key, kf, vf, dlist_next(s.next, p))

RECURSIVE remove_scan(_, _, _, _, _)
remove_scan(s, key, kf, vf, p) ==
  IF dlist_isEnd(s.next, p) THEN s
  ELSE LET i == dlist_inspect(s.next, p) IN
       IF Match(s.elem, i, key)
       THEN remove_scan(dlist_remove(FreeEntry(s, i, kf, vf), p),
                        key, kf, vf, p)
       ELSE remove_scan(s, key, kf, vf, dlist_next(s.next, p))

table_remove(s, key, kf, vf) == remove_scan(s, key, kf, vf, dlist_first)

RECURSIVE free_scan(_, _, _, _)
free_scan(s, kf, vf, p) ==
  IF dlist_isEnd(s.next, p) THEN s
  ELSE LET i == dlist_inspect(s.next, p) IN
       free_scan(dlist_remove(FreeEntry(s, i, kf, vf), p), kf, vf, p)

table_free(s, kf, vf) == free_scan(s, kf, vf, dlist_first)

\* ------------------------------------------------------------------- state
Heap ==
  [next |-> next, elem |-> elem, live |-> live, kc |-> keyFreeCalls,
   vc |-> valueFreeCalls]

\* The entries of the table, front to back, with their keys and values.
Entries(nx, el) ==
  LET l == List(nx) IN
  [n \in 1..Len(l) |-> [cell |-> l[n], key |-> el[l[n]].key, value |-> el[l[n]].value]]

Call(op, key, value, ret, nomem) ==
  [op |-> op, key |-> key, value |-> value, ret |-> ret, nomem |-> nomem,
   before |-> Entries(next, elem), kc |-> keyFreeCalls, vc |-> valueFreeCalls]

Init ==
  /\ next = [c \in 1..(MaxCells + 1) |-> NULL]
  /\ elem = [c \in Cells |-> NoElem]
  /\ live = {}
  /\ used = 0
  /\ keyFree = NULL
  /\ valueFree = NULL
  /\ keyFreeCalls = [c \in Cells |-> 0]
  /\ valueFreeCalls = [c \in Cells |-> 0]
  /\ status = "live"
  /\ last = [op |-> "create", key |-> NULL, value |-> NULL, ret |-> NULL,
             nomem |-> FALSE, before |-> <<>>,
             kc |-> [c \in Cells |-> 0], vc |-> [c \in Cells |-> 0]]

\* Mutant: the key handler's setter also overwrites the value handler.
SetKeyMemHandler_both(f) ==
  /\ status = "live"
  /\ keyFree' = f
  /\ valueFree' = f
  /\ last' = Call("setKeyMemHandler", NULL, f, NULL, FALSE)
  /\ UNCHANGED <<next, elem, live, used, keyFreeCalls, valueFreeCalls, status>>

SetKeyMemHandler(f) ==
  /\ status = "live"
  /\ keyFree' = f
  /\ last' = Call("setKeyMemHandler", NULL, f, NULL, FALSE)
  /\ UNCHANGED <<next, elem, live, used, valueFree, keyFreeCalls,
                 valueFreeCalls, status>>

SetValueMemHandler(f) ==
  /\ status = "live"
  /\ valueFree' = f
  /\ last' = Call("setValueMemHandler", NULL, f, NULL, FALSE)
  /\ UNCHANGED <<next, elem, live, used, keyFree, keyFreeCalls,
                 valueFreeCalls, status>>

IsEmpty ==
  /\ status = "live"
  /\ last' = Call("isEmpty", NULL, NULL, table_isEmpty(next), FALSE)
  /\ UNCHANGED <<next, elem, live, used, keyFree, valueFree, keyFreeCalls,
                 valueFreeCalls, status>>

\* malloc succeeded: the new element is filled in and put first.
Insert(k, v) ==
  /\ status = "live"
  /\ used < MaxCells
  /\ LET c == used + 1 IN
       /\ elem' = [elem EXCEPT ![c] = [key |-> k, value |-> v]]
       /\ next' = table_insert(next, c)
       /\ live' = live \cup {c}
       /\ used' = c
  /\ last' = Call("insert", k, v, NULL, FALSE)
  /\ UNCHANGED <<keyFree, valueFree, keyFreeCalls, valueFreeCalls, status>>

\* malloc returned NULL: e->key = key stores through the null pointer and
\* the process is killed; nothing is returned to the caller.
InsertNoMem(k, v) ==
  /\ status = "live"
  /\ status' = "crashed"
  /\ last' = Call("insert", k, v, NULL, TRUE)
  /\ UNCHANGED <<next, elem, live, used, keyFree, valueFree, keyFreeCalls,
                 valueFreeCalls>>

Lookup(k) ==
  /\ status = "live"
  /\ LET r == table_lookup(next, elem, k) IN
       /\ next' = r.next
       /\ last' = Call("lookup", k, NULL, r.ret, FALSE)
  /\ UNCHANGED <<elem, live, used, keyFree, valueFree, keyFreeCalls,
                 valueFreeCalls, status>>

Remove(k) ==
  /\ status = "live"
  /\ LET s == table_remove(Heap, k, keyFree, valueFree) IN
       /\ next' = s.next
       /\ elem' = s.elem
       /\ live' = s.live
       /\ keyFreeCalls' = s.kc
       /\ valueFreeCalls' = s.vc
  /\ last' = Call("remove", k, NULL, NULL, FALSE)
  /\ UNCHANGED <<used, keyFree, valueFree, status>>

Free ==
  /\ status = "live"
  /\ LET s == table_free(Heap, keyFree, valueFree) IN
       /\ next' = s.next
       /\ elem' = s.elem
       /\ live' = s.live
       /\ keyFreeCalls' = s.kc
       /\ valueFreeCalls' = s.vc
  /\ status' = "freed"
  /\ last' = Call("free", NULL, NULL, NULL, FALSE)
  /\ UNCHANGED <<used, keyFree, valueFree>>

Next ==
  \/ \E f \in FreeFuncs : SetKeyMemHandler(f)
  \/ \E f \in FreeFuncs : SetValueMemHandler(f)
  \/ IsEmpty
  \/ \E k \in Keys, v \in Values(used + 1) : Insert(k, v)
  \/ \E k \in Keys, v \in Values(used + 1) : InsertNoMem(k, v)
  \/ \E k \in Keys : Lookup(k)
  \/ \E k \in Keys : Remove(k)
  \/ Free

Spec == Init /\ [][Next]_vars

\* The lifetime of a table that owns its keys and values: both handlers are
\* installed before the first insert and stay installed, then any inserts,
\* lookups and removes, ended by table_free.
OwnedNext ==
  \/ \E f \in FreeFuncs : used = 0 /\ SetKeyMemHandler(f)
  \/ \E f \in FreeFuncs : used = 0 /\ SetValueMemHandler(f)
  \/ \E k \in Keys, v \in Values(used + 1) :
       keyFree # NULL /\ valueFree # NULL /\ Insert(k, v)
  \/ \E k \in Keys : Lookup(k)
  \/ \E k \in Keys : Remove(k)
  \/ keyFree # NULL /\ valueFree # NULL /\ Free

OwnedSpec == Init /\ [][OwnedNext]_vars

\* ------------------------------------------------------------- properties
\* The table's entries now, front to back.
Now == Entries(next, elem)

\* Comparator equality of two keys.
KeyEq(a, b) == cf(a, b) = 0

\* Positions of the entries of seq whose key compares equal to k.
Matching(seq, k) == {n \in 1..Len(seq) : KeyEq(seq[n].key, k)}

\* Position of the front-most entry of seq matching k (a match exists).
FirstMatch(seq, k) ==
  CHOOSE n \in Matching(seq, k) : \A m \in Matching(seq, k) : n <= m

\* seq without its n-th entry.
Without(seq, n) == SubSeq(seq, 1, n - 1) \o SubSeq(seq, n + 1, Len(seq))

\* Position of cell c in seq, 0 when absent.
PosOf(seq, c) ==
  IF \E n \in 1..Len(seq) : seq[n].cell = c
  THEN CHOOSE n \in 1..Len(seq) : seq[n].cell = c
  ELSE 0

\* C1: after a successful table_lookup on a table of at least 2 entries the
\* matched entry is first and the other entries keep their relative order.
MoveToFront ==
  (last.op = "lookup" /\ Len(last.before) >= 2 /\ Matching(last.before, last.key) # {})
    => LET n == FirstMatch(last.before, last.key)
       IN Now = <<last.before[n]>> \o Without(last.before, n)

\* C2: directly after table_insert(T,k,v) has returned, table_lookup(T,k)
\* returns v, and the new entry stands in front of every entry with a
\* comparator-equal key that was in the table before the insert.
InsertThenLookup ==
  (last.op = "insert" /\ status = "live")
    => /\ table_lookup(next, elem, last.key).ret = last.value
       /\ PosOf(Now, used) >= 1
       /\ Now[PosOf(Now, used)].key = last.key
       /\ Now[PosOf(Now, used)].value = last.value
       /\ \A n \in Matching(last.before, last.key) :
            PosOf(Now, used) < PosOf(Now, last.before[n].cell)

\* C2 witness: an insert of a key that the table already held.
InsertThenLookupWitness ==
  /\ last.op = "insert"
  /\ status = "live"
  /\ last.value # NULL
  /\ Matching(last.before, last.key) # {}
  /\ \E n \in 1..Len(last.before) : last.before[n].value # last.value

\* C3: when exactly one entry matches k, a second table_lookup(T,k) leaves
\* the order as the first one left it and returns the same value.
LookupIdempotent ==
  (last.op = "lookup" /\ Cardinality(Matching(last.before, last.key)) = 1)
    => LET r == table_lookup(next, elem, last.key)
       IN Entries(r.next, elem) = Now /\ r.ret = last.ret

\* C4: a table_lookup of a key that no entry compares equal to returns NULL
\* and leaves the order and the contents of the sequence unchanged.
LookupMiss ==
  (last.op = "lookup" /\ Matching(last.before, last.key) = {})
    => last.ret = NULL /\ Now = last.before

\* C4 witness: a miss on a table of two entries.
LookupMissWitness ==
  /\ last.op = "lookup"
  /\ Matching(last.before, last.key) = {}
  /\ Len(last.before) >= 2
  /\ last.before[1].value # NULL

\* The entries that table_remove has removed.
Removed == (1..used) \ live

\* C5: table_isEmpty is true exactly when no insert has happened or every
\* inserted entry has been removed by table_remove.
Emptiness ==
  status = "live"
    => (table_isEmpty(next) <=> (used = 0 \/ \A c \in 1..used : c \in Removed))

\* C6: after table_remove(T,k) no remaining entry has a key that compares
\* equal to k.
RemoveAll ==
  last.op = "remove" => Matching(Now, last.key) = {}

\* C6 witness: a remove that met at least two matching entries (with two
\* cells: adjacent, one at the front and one last).
RemoveAllWitness ==
  /\ last.op = "remove"
  /\ Cardinality(Matching(last.before, last.key)) >= 2

\* C7: once table_free has ended the lifetime of a table that owned its keys
\* and values throughout, keyFree has been called exactly once on every
\* inserted key and valueFree exactly once on every inserted value.
DestructorsOnce ==
  status = "freed"
    => \A c \in 1..used : keyFreeCalls[c] = 1 /\ valueFreeCalls[c] = 1

\* Cells of the entries of seq whose key compares equal to k.
MatchingCells(seq, k) == {seq[n].cell : n \in Matching(seq, k)}

\* C8: one table_remove(T,k) calls each registered destructor exactly once
\* for every matching entry, calls no unregistered destructor and calls no
\* destructor for any other entry.
RemoveDestructors ==
  last.op = "remove"
    => \A c \in Cells :
         /\ keyFreeCalls[c] - last.kc[c] =
              (IF c \in MatchingCells(last.before, last.key) /\ keyFree # NULL
               THEN 1 ELSE 0)
         /\ valueFreeCalls[c] - last.vc[c] =
              (IF c \in MatchingCells(last.before, last.key) /\ valueFree # NULL
               THEN 1 ELSE 0)

\* C8 witness: a remove with only the key destructor registered that met a
\* matching and a non-matching entry.
RemoveDestructorsWitness ==
  /\ last.op = "remove"
  /\ keyFree # NULL
  /\ valueFree = NULL
  /\ Matching(last.before, last.key) # {}
  /\ Cardinality(Matching(last.before, last.key)) < Len(last.before)

\* C9: a table_insert whose malloc fails returns an explicit failure result
\* to the caller and leaves the table as it was before the call.
InsertFailureSurfaced ==
  (last.op = "insert" /\ last.nomem)
    => status = "live" /\ last.ret # NULL /\ Now = last.before

\* C10 as stated: table_lookup returns NULL exactly when no entry matches.
NotFoundDistinct ==
  last.op = "lookup"
    => (last.ret = NULL <=> Matching(last.before, last.key) = {})

\* C10 amended: table_lookup returns NULL exactly when no entry matches or
\* the front-most matching entry holds the value NULL.
NotFoundOrNullValue ==
  last.op = "lookup"
    => (last.ret = NULL <=>
          \/ Matching(last.before, last.key) = {}
          \/ last.before[FirstMatch(last.before, last.key)].value = NULL)

\* C10 witness: a lookup that matched an entry holding the value NULL in
\* front of a matching entry with another value.
NotFoundOrNullValueWitness ==
  /\ last.op = "lookup"
  /\ Cardinality(Matching(last.before, last.key)) >= 2
  /\ last.before[FirstMatch(last.before, last.key)].value = NULL
  /\ \E n \in Matching(last.before, last.key) : last.before[n].value # NULL

\* C11: when the entry matched by table_lookup is already the first entry,
\* the sequence after the call is the sequence before it.
FrontLookupUnchanged ==
  (/\ last.op = "lookup"
   /\ Matching(last.before, last.key) # {}
   /\ FirstMatch(last.before, last.key) = 1)
    => Now = last.before

\* The entries of seq as a set (cells are never shared by two entries).
EntrySet(seq) == {seq[n] : n \in 1..Len(seq)}

\* C12: table_lookup, hit or miss, keeps the number and the multiset of the
\* entries in the sequence and calls no destructor.
LookupPermutes ==
  last.op = "lookup"
    => /\ Len(Now) = Len(last.before)
       /\ EntrySet(Now) = EntrySet(last.before)
       /\ keyFreeCalls = last.kc
       /\ valueFreeCalls = last.vc

\* The keys and values of seq, front to back.
KV(seq) == [n \in 1..Len(seq) |-> [key |-> seq[n].key, value |-> seq[n].value]]

\* The reference move-to-front list: insert prepends, a successful lookup
\* moves the first match to the front, a failed lookup changes nothing,
\* remove deletes every match.
RefInsert(seq, k, v) == <<[key |-> k, value |-> v]>> \o seq

RefLookup(seq, k) ==
  IF Matching(seq, k) = {} THEN seq
  ELSE <<seq[FirstMatch(seq, k)]>> \o Without(seq, FirstMatch(seq, k))

RefRemove(seq, k) == SelectSeq(seq, LAMBDA e : ~KeyEq(e.key, k))

RefStep(c) ==
  CASE c.op = "insert" -> RefInsert(KV(c.before), c.key, c.value)
    [] c.op = "lookup" -> RefLookup(KV(c.before), c.key)
    [] c.op = "remove" -> RefRemove(KV(c.before), c.key)
    [] OTHER -> KV(c.before)

\* C13: every insert, lookup and remove takes the table's sequence to the
\* sequence the reference move-to-front list has after the same call, so
\* both agree after any sequence of calls.
RefinesMoveToFront ==
  status = "live" => KV(Now) = RefStep(last)

\* C14: with several entries matching the lookup key, table_lookup returns
\* the value of the front-most match and promotes that entry only; every
\* other entry, the later matches included, keeps its relative position.
PromotesFirstMatchOnly ==
  (last.op = "lookup" /\ Cardinality(Matching(last.before, last.key)) >= 2)
    => LET n == FirstMatch(last.before, last.key)
       IN /\ last.ret = last.before[n].value
          /\ Now = <<last.before[n]>> \o Without(last.before, n)

\* C15: a table_insert that returns has put the new entry in front of the
\* previous sequence, which is otherwise unchanged: one entry more, nothing
\* replaced or reordered, whatever keys were present (the outcome does not
\* depend on any comparison with them).
InsertPrepends ==
  (last.op = "insert" /\ status = "live")
    => /\ Now = <<[cell |-> used, key |-> last.key, value |-> last.value]>>
                \o last.before
       /\ Len(Now) = Len(last.before) + 1
       /\ used \notin {last.before[n].cell : n \in 1..Len(last.before)}

\* C15 witness: an insert of a key that compares equal to the key of the
\* entry at the front.
InsertPrependsWitness ==
  /\ last.op = "insert"
  /\ status = "live"
  /\ Len(last.before) >= 1
  /\ KeyEq(last.before[1].key, last.key)
  /\ Len(Now) = Len(last.before) + 1

\* The entries of seq whose key does not compare equal to k, in order.
NonMatching(seq, k) == SelectSeq(seq, LAMBDA e : ~KeyEq(e.key, k))

KeyFreed(c) == keyFreeCalls'[c] - keyFreeCalls[c]
ValueFreed(c) == valueFreeCalls'[c] - valueFreeCalls[c]

\* A step that is (or stutters after) a call of the named function.
IsCall(op) == last'.op = op

\* The entries, their order and contents, and the destructor calls so far.
TableContents == <<next, elem, live, used, keyFreeCalls, valueFreeCalls>>

\* C17: table_setKeyMemHandler and table_setValueMemHandler store the given
\* callback and change nothing else (entries, the other handler, no
\* destructor call); no other call changes a stored handler; and every
\* table_remove and table_free calls, on each entry it removes, exactly the
\* handlers stored at that moment, whenever the entry was inserted.
HandlerStep ==
  /\ IsCall("setKeyMemHandler")
       => /\ keyFree' = last'.value
          /\ UNCHANGED <<TableContents, valueFree, status>>
  /\ IsCall("setValueMemHandler")
       => /\ valueFree' = last'.value
          /\ UNCHANGED <<TableContents, keyFree, status>>
  /\ ~(IsCall("setKeyMemHandler") \/ IsCall("setValueMemHandler"))
       => UNCHANGED <<keyFree, valueFree>>
  /\ (IsCall("remove") \/ IsCall("free"))
       => \A c \in live \ live' :
            /\ KeyFreed(c) = (IF keyFree # NULL THEN 1 ELSE 0)
            /\ ValueFreed(c) = (IF valueFree # NULL THEN 1 ELSE 0)

HandlersFrame == [][HandlerStep]_vars

\* C17 witness: a key handler installed on a table that already holds an
\* entry, while no value handler is registered.
HandlersFrameWitness ==
  /\ last.op = "setKeyMemHandler"
  /\ last.value # NULL
  /\ keyFree = last.value
  /\ valueFree = NULL
  /\ Len(Now) >= 1

\* The cells met by following next from the head cell for at most n steps.
RECURSIVE Walk(_, _)
Walk(p, n) ==
  IF n = 0 \/ next[p] = NULL THEN <<>>
  ELSE <<next[p]>> \o Walk(next[p], n - 1)

\* The cell at which a walk of at most n steps from the head cell stops.
WalkEnd(n) == IF Walk(head, n) = <<>> THEN head ELSE Walk(head, n)[Len(Walk(head, n))]

\* C18: the chain of cells from the head cell visits no cell twice, visits
\* allocated cells only and ends at a cell whose next is NULL, so every
\* front-to-back traversal ends after at most as many steps as there are
\* allocated cells.
ChainEnds ==
  LET w == Walk(head, MaxCells + 1) IN
  /\ \A m, n \in 1..Len(w) : w[m] = w[n] => m = n
  /\ \A n \in 1..Len(w) : w[n] \in live /\ w[n] # head
  /\ Len(w) <= Cardinality(live)
  /\ next[WalkEnd(MaxCells + 1)] = NULL

\* C18 witness: a lookup has moved the last of two entries to the front and
\* the chain still runs through both entries to its end.
ChainEndsWitness ==
  /\ last.op = "lookup"
  /\ Len(last.before) = 2
  /\ Matching(last.before, last.key) = {2}
  /\ Len(Walk(head, MaxCells + 1)) = 2
  /\ next[WalkEnd(MaxCells + 1)] = NULL

====
